---- MODULE Spec2Model ----
(***************************************************************************)
(* A model of the KYC agent system (src/kyc/system.py): the document       *)
(* pipeline analyze_document, the in-memory client ledger                  *)
(* client_data_store and the operations on it.                             *)
(*                                                                         *)
(* Python values are modelled as tagged records: a JSON object is          *)
(* [t |-> "obj", f |-> <function from its keys>], a list is                *)
(* [t |-> "list", items |-> <sequence>], anything else carries another     *)
(* tag.  A dict is insertion ordered, so the ledger is a pair of the key   *)
(* sequence and the map from key to record.  Strings that the code         *)
(* inspects character by character (client names) are sequences of         *)
(* one-character strings.                                                  *)
(***************************************************************************)
EXTENDS Integers, Sequences, FiniteSets, TLC

VARIABLES
    client_data_store,  \* self.client_data_store: [keys |-> Seq, recs |-> map]
    prev_store,         \* history: the ledger when the last operation began
    nops,               \* number of operations begun; also the clock of datetime.now()
    last_op,            \* the last ledger API call: [op |-> ..., ...arguments]
    ret,                \* what that call returned
    inv                 \* the analyze_document invocation: its position and locals

vars == <<client_data_store, prev_store, nops, last_op, ret, inv>>

\* Number of analyze_document invocations explored in one behaviour.
MaxDocs == 3
\* Number of ledger API calls explored in one behaviour.
MaxOps == 2

(***************************************************************************)
(* Python helpers                                                          *)
(***************************************************************************)

Abs(n) == IF n < 0 THEN -n ELSE n

RECURSIVE SumSeq(_)
SumSeq(s) == IF s = <<>> THEN 0 ELSE Head(s) + SumSeq(Tail(s))

IsObj(v) == v.t = "obj"
IsList(v) == v.t = "list"
Obj(f) == [t |-> "obj", f |-> f]
List(items) == [t |-> "list", items |-> items]
\* the JSON string "n/a" where a list or an object is expected
NotAList == [t |-> "str", s |-> <<"n", "/", "a">>]
NotADict == NotAList
EmptyObj == Obj(<<>>)

\* d.get(k, default) on a dict d
DictGet(d, k, default) == IF k \in DOMAIN d.f THEN d.f[k] ELSE default

\* item.get("value", 0) on a ledger entry
ValueOr0(e) == IF "value" \in DOMAIN e THEN e.value ELSE 0

SumValues(entries) == SumSeq([i \in 1..Len(entries) |-> ValueOr0(entries[i])])

(***************************************************************************)
(* The ledger as an insertion-ordered dict                                 *)
(***************************************************************************)

EmptyStore == [keys |-> <<>>, recs |-> <<>>]
Has(s, k) == k \in DOMAIN s.recs
Put(s, k, r) ==
    IF Has(s, k)
    THEN [s EXCEPT !.recs[k] = r]
    ELSE [keys |-> Append(s.keys, k), recs |-> (k :> r) @@ s.recs]
Del(s, k) ==
    [keys |-> SelectSeq(s.keys, LAMBDA x : x # k),
     recs |-> [x \in (DOMAIN s.recs) \ {k} |-> s.recs[x]]]

NewRecord == [assets |-> <<>>, liabilities |-> <<>>, documents_processed |-> <<>>]

SetupIfAbsent(s, k) == IF Has(s, k) THEN s ELSE Put(s, k, NewRecord)

(***************************************************************************)
(* Strings inspected character by character                                *)
(***************************************************************************)

UpperChars == <<"J", "S", "U", "N", "K", "O", "W">>
LowerChars == <<"j", "s", "u", "n", "k", "o", "w">>

\* str.lower() on one character
LowerChar(c) ==
    IF \E i \in 1..Len(UpperChars) : UpperChars[i] = c
    THEN LowerChars[CHOOSE i \in 1..Len(UpperChars) : UpperChars[i] = c]
    ELSE c

\* str.lower()
Lower(s) == [i \in 1..Len(s) |-> LowerChar(s[i])]

RECURSIVE LStrip(_)
LStrip(s) == IF s # <<>> /\ Head(s) = " " THEN LStrip(Tail(s)) ELSE s

RECURSIVE RStrip(_)
RStrip(s) ==
    IF s # <<>> /\ s[Len(s)] = " " THEN RStrip(SubSeq(s, 1, Len(s) - 1)) ELSE s

\* str.strip()
Strip(s) == RStrip(LStrip(s))

Unknown == <<"u", "n", "k", "n", "o", "w", "n">>
UNKNOWN == <<"U", "N", "K", "N", "O", "W", "N">>

(***************************************************************************)
(* update_client_data_from_overview                                        *)
(***************************************************************************)

\* Mutants of list.extend: an assignment instead of an append, and an append
\* that skips the entries the list already holds.
ExtendReplacing(list, items) == items

ExtendDeduplicating(list, items) ==
    list \o SelectSeq(items, LAMBDA e : ~\E i \in 1..Len(list) : list[i] = e)

\* list.extend
Extend(list, items) == list \o items

\* for item in liability_details: if "value" in item: item["value"] = abs(item["value"])
NormalizeLiability(item) ==
    IF "value" \in DOMAIN item THEN [item EXCEPT !.value = Abs(item.value)] ELSE item

NormalizeLiabilities(items) == [i \in 1..Len(items) |-> NormalizeLiability(items[i])]

OverviewEvent(ts) == [timestamp |-> ts, summary |-> "Updated data from overview document"]

\* Mutant: the asset branch normalising signs as the liability branch does.
ExtendAssetsNormalized(s, k, details) ==
    IF IsList(details)
    THEN [s EXCEPT !.recs[k].assets = Extend(@, NormalizeLiabilities(details.items))]
    ELSE s

\* self.client_data_store[client_name]["assets"].extend(asset_details), if a list
ExtendAssets(s, k, details) ==
    IF IsList(details)
    THEN [s EXCEPT !.recs[k].assets = Extend(@, details.items)]
    ELSE s

\* the liability branch: normalise in place, then extend
ExtendLiabilities(s, k, details) ==
    IF IsList(details)
    THEN [s EXCEPT !.recs[k].liabilities = Extend(@, NormalizeLiabilities(details.items))]
    ELSE s

\* What the in-place normalisation leaves in the caller's payload for one client.
MutatedData(data) ==
    IF /\ IsObj(data)
       /\ "liabilities" \in DOMAIN data.f
       /\ IsObj(data.f.liabilities)
       /\ "details" \in DOMAIN data.f.liabilities.f
       /\ IsList(data.f.liabilities.f.details)
       /\ ("assets" \in DOMAIN data.f => IsObj(data.f.assets))
    THEN [data EXCEPT !.f.liabilities.f.details.items = NormalizeLiabilities(@)]
    ELSE data

\* One iteration of the loop body: the ledger after it, the payload entry after
\* it, and the exception that ended it ("" when none).
IngestClient(s, k, data, ts) ==
    LET s1 == SetupIfAbsent(s, k) IN
    IF ~IsObj(data) THEN [store |-> s1, data |-> data, err |-> "AttributeError"]
    ELSE
    LET assets == DictGet(data, "assets", EmptyObj) IN
    IF ~IsObj(assets) THEN [store |-> s1, data |-> data, err |-> "AttributeError"]
    ELSE
    LET s2 == ExtendAssets(s1, k, DictGet(assets, "details", List(<<>>)))
        liabilities == DictGet(data, "liabilities", EmptyObj)
    IN
    IF ~IsObj(liabilities) THEN [store |-> s2, data |-> data, err |-> "AttributeError"]
    ELSE
    LET s3 == ExtendLiabilities(s2, k, DictGet(liabilities, "details", List(<<>>)))
        s4 == [s3 EXCEPT !.recs[k].documents_processed = Append(@, OverviewEvent(ts))]
    IN [store |-> s4, data |-> MutatedData(data), err |-> ""]

RECURSIVE IngestFrom(_, _, _, _)
IngestFrom(s, payload, i, ts) ==
    IF i > Len(payload.keys) THEN [store |-> s, payload |-> payload, err |-> ""]
    ELSE
    LET k == payload.keys[i]
        one == IngestClient(s, k, payload.f[k], ts)
        p1 == [payload EXCEPT !.f[k] = one.data]
    IN IF one.err # "" THEN [store |-> one.store, payload |-> p1, err |-> one.err]
       ELSE IngestFrom(one.store, p1, i + 1, ts)

\* The whole call: the ledger and the (mutated) payload it leaves, and the
\* exception it raised, if any.  A payload that is no dict has no .items().
update_client_data_from_overview(s, overview_data, ts) ==
    IF ~IsObj(overview_data)
    THEN [store |-> s, payload |-> overview_data, err |-> "AttributeError"]
    ELSE IngestFrom(s, overview_data, 1, ts)

(***************************************************************************)
(* update_client_data                                                      *)
(***************************************************************************)

\* Python truthiness of what data.get(k) gave: None and the empty list are falsy.
Truthy(v) == v.t # "none" /\ ~(IsList(v) /\ v.items = <<>>)
None == [t |-> "none"]

\* items = data.get(k); if not items and "details" in data: items = data["details"]
ItemsOf(data, k) ==
    LET items == DictGet(data, k, None) IN
    IF ~Truthy(items) /\ "details" \in DOMAIN data.f THEN data.f.details ELSE items

\* len(data.get(k, [])) or len(data.get('details', []))
PyLen(v) == IF IsList(v) THEN Len(v.items) ELSE Len(v.s)

SummaryCount(data, k) ==
    LET n == PyLen(DictGet(data, k, List(<<>>))) IN
    IF n # 0 THEN n ELSE PyLen(DictGet(data, "details", List(<<>>)))

UpdateEvent(data_type, data, ts) ==
    [data_type |-> data_type,
     timestamp |-> ts,
     data_summary |-> SummaryCount(data, IF data_type = "asset" THEN "assets" ELSE "liabilities")]

\* The ledger after update_client_data(client_id, data_type, data).
update_client_data(s, client_id, data_type, data, ts) ==
    IF client_id = "UNKNOWN" THEN s
    ELSE
    LET s1 == SetupIfAbsent(s, client_id)
        asset_items == ItemsOf(data, "assets")
        liability_items == ItemsOf(data, "liabilities")
        s2 == IF data_type = "asset"
              THEN IF Truthy(asset_items) /\ IsList(asset_items)
                   THEN [s1 EXCEPT !.recs[client_id].assets = Extend(@, asset_items.items)]
                   ELSE s1
              ELSE IF data_type = "liability"
              THEN IF Truthy(liability_items) /\ IsList(liability_items)
                   THEN [s1 EXCEPT !.recs[client_id].liabilities =
                             Extend(@, NormalizeLiabilities(liability_items.items))]
                   ELSE s1
              ELSE s1
    IN [s2 EXCEPT !.recs[client_id].documents_processed =
            Append(@, UpdateEvent(data_type, data, ts))]

(***************************************************************************)
(* calculate_net_worth and get_client_summary                              *)
(***************************************************************************)

\* a lookup miss reported as silent zeros, without the error field
NetWorthNotFoundSilent(client_id) ==
    Obj([client_id |-> client_id,
         total_assets |-> 0,
         total_liabilities |-> 0,
         net_worth |-> 0])

NetWorthNotFound(client_id) ==
    Obj([client_id |-> client_id,
         error |-> "Client not found",
         total_assets |-> 0,
         total_liabilities |-> 0,
         net_worth |-> 0])

\* a fallback that reports zeros instead of summing the record
NetWorthFallbackZeros(client_id, client_data) ==
    Obj([client_id |-> client_id,
         error |-> "Could not calculate net worth",
         total_assets |-> 0,
         total_liabilities |-> 0,
         net_worth |-> 0])

\* the except branch: the totals are summed locally from the client's record
NetWorthFallback(client_id, client_data) ==
    Obj([client_id |-> client_id,
         error |-> "Could not calculate net worth",
         total_assets |-> SumValues(client_data.assets),
         total_liabilities |-> SumValues(client_data.liabilities),
         net_worth |-> SumValues(client_data.assets) - SumValues(client_data.liabilities)])

\* What calculate_net_worth returns once the service has answered with
\* response r (which did not raise): json.loads(str(result)), or the fallback.
NetWorthReturn(client_id, client_data, r) ==
    IF r.k = "json" THEN r.v ELSE NetWorthFallback(client_id, client_data)

get_client_summary(s, client_id) ==
    IF ~Has(s, client_id)
    THEN Obj([client_id |-> client_id, error |-> "Client not found"])
    ELSE
    LET client_data == s.recs[client_id]
        total_assets == SumValues(client_data.assets)
        total_liabilities == SumValues(client_data.liabilities)
        stamps == {client_data.documents_processed[i].timestamp :
                       i \in 1..Len(client_data.documents_processed)}
    IN Obj([client_id |-> client_id,
            client_info |-> IF "client_info" \in DOMAIN client_data
                            THEN client_data.client_info
                            ELSE Obj([client_name |-> UNKNOWN]),
            last_updated |-> IF stamps = {} THEN "Never"
                             ELSE CHOOSE t \in stamps : \A u \in stamps : u <= t,
            asset_count |-> Len(client_data.assets),
            liability_count |-> Len(client_data.liabilities),
            document_count |-> Len(client_data.documents_processed),
            total_assets |-> total_assets,
            total_liabilities |-> total_liabilities,
            net_worth |-> total_assets - total_liabilities])

(***************************************************************************)
(* reconcile_client_records and _merge_client_records                      *)
(***************************************************************************)

\* client_info.get("client_name", "").lower().strip()
GroupName(rec) ==
    LET client_info == IF "client_info" \in DOMAIN rec THEN rec.client_info ELSE EmptyObj
    IN Strip(Lower(DictGet(client_info, "client_name", <<>>)))

Grouped(s, k) == GroupName(s.recs[k]) # <<>> /\ GroupName(s.recs[k]) # Unknown

\* client_groups[name], in the order the ids were appended
GroupIds(s, name) ==
    SelectSeq(s.keys, LAMBDA k : Grouped(s, k) /\ GroupName(s.recs[k]) = name)

MergeEvent(secondary_id, secondary, ts) ==
    [merged_from_id |-> secondary_id,
     timestamp |-> ts,
     assets_count |-> Len(secondary.assets),
     liabilities_count |-> Len(secondary.liabilities)]

\* a merge that leaves the secondary record in the ledger
MergeKeepingSecondary(s, primary_id, secondary_id, ts) ==
    IF ~Has(s, primary_id) \/ ~Has(s, secondary_id) THEN s
    ELSE
    LET primary == s.recs[primary_id]
        secondary == s.recs[secondary_id]
        history == IF "merge_history" \in DOMAIN primary THEN primary.merge_history ELSE <<>>
        merged == [merge_history |-> Append(history, MergeEvent(secondary_id, secondary, ts))]
                  @@ [primary EXCEPT
                        !.assets = Extend(@, secondary.assets),
                        !.liabilities = Extend(@, secondary.liabilities),
                        !.documents_processed = Extend(@, secondary.documents_processed)]
    IN [s EXCEPT !.recs[primary_id] = merged]

\* a merge that takes over assets and liabilities but not the history
MergeWithoutHistory(s, primary_id, secondary_id, ts) ==
    IF ~Has(s, primary_id) \/ ~Has(s, secondary_id) THEN s
    ELSE
    LET primary == s.recs[primary_id]
        secondary == s.recs[secondary_id]
        history == IF "merge_history" \in DOMAIN primary THEN primary.merge_history ELSE <<>>
        merged == [merge_history |-> Append(history, MergeEvent(secondary_id, secondary, ts))]
                  @@ [primary EXCEPT
                        !.assets = Extend(@, secondary.assets),
                        !.liabilities = Extend(@, secondary.liabilities)]
    IN Del([s EXCEPT !.recs[primary_id] = merged], secondary_id)

\* a merge that deletes the secondary record without taking its entries over
MergeDiscarding(s, primary_id, secondary_id, ts) ==
    IF ~Has(s, primary_id) \/ ~Has(s, secondary_id) THEN s
    ELSE Del(s, secondary_id)

merge_client_records(s, primary_id, secondary_id, ts) ==
    IF ~Has(s, primary_id) \/ ~Has(s, secondary_id) THEN s
    ELSE
    LET primary == s.recs[primary_id]
        secondary == s.recs[secondary_id]
        history == IF "merge_history" \in DOMAIN primary THEN primary.merge_history ELSE <<>>
        merged == [merge_history |-> Append(history, MergeEvent(secondary_id, secondary, ts))]
                  @@ [primary EXCEPT
                        !.assets = Extend(@, secondary.assets),
                        !.liabilities = Extend(@, secondary.liabilities),
                        !.documents_processed = Extend(@, secondary.documents_processed)]
    IN Del([s EXCEPT !.recs[primary_id] = merged], secondary_id)

\* for other_id in client_ids[1:]: merge into client_ids[0]; merged_count += 1
RECURSIVE MergeOthers(_, _, _, _, _)
MergeOthers(s, primary_id, others, count, ts) ==
    IF others = <<>> THEN [store |-> s, count |-> count]
    ELSE MergeOthers(merge_client_records(s, primary_id, Head(others), ts),
                     primary_id, Tail(others), count + 1, ts)

\* The loop over client_groups.items(): the groups were built from the ledger
\* as it was when the call began (s0), in the order of their first member.
RECURSIVE MergeGroups(_, _, _, _, _)
MergeGroups(s0, s, i, count, ts) ==
    IF i > Len(s0.keys) THEN [store |-> s, count |-> count]
    ELSE
    LET k == s0.keys[i] IN
    IF Grouped(s0, k) /\ Head(GroupIds(s0, GroupName(s0.recs[k]))) = k
                      /\ Len(GroupIds(s0, GroupName(s0.recs[k]))) > 1
    THEN LET m == MergeOthers(s, k, Tail(GroupIds(s0, GroupName(s0.recs[k]))), count, ts)
         IN MergeGroups(s0, m.store, i + 1, m.count, ts)
    ELSE MergeGroups(s0, s, i + 1, count, ts)

\* The ledger after the call and the merged_count it returns.
reconcile_client_records(s, ts) == MergeGroups(s, s, 1, 0, ts)

(***************************************************************************)
(* export_client_data and import_client_data                               *)
(***************************************************************************)

export_client_data(s, ts) ==
    Obj([export_timestamp |-> ts, client_count |-> Len(s.keys), clients |-> s])

\* an import that replaces the whole ledger by the snapshot's clients
DictReplace(s, other, i) == other

\* an update under which a key already present keeps its old record
RECURSIVE DictSetDefault(_, _, _)
DictSetDefault(s, other, i) ==
    IF i > Len(other.keys) THEN s
    ELSE DictSetDefault(IF Has(s, other.keys[i]) THEN s
                        ELSE Put(s, other.keys[i], other.recs[other.keys[i]]),
                        other, i + 1)

\* dict.update: a key already present keeps its place and takes the new record
RECURSIVE DictUpdate(_, _, _)
DictUpdate(s, other, i) ==
    IF i > Len(other.keys) THEN s
    ELSE DictUpdate(Put(s, other.keys[i], other.recs[other.keys[i]]), other, i + 1)

\* The ledger after import_client_data(data) and the count it returns.
import_client_data(s, data) ==
    LET client_data == DictGet(data, "clients", EmptyStore) IN
    [store |-> DictUpdate(s, client_data, 1), count |-> Len(client_data.keys)]

(***************************************************************************)
(* The Extraction Service: what a call can do                              *)
(***************************************************************************)

\* The call raises (a transport error), answers with text that json.loads
\* rejects, or answers with text that parses to the JSON value v.
Raise == [k |-> "raise"]
Text == [k |-> "text"]
Json(v) == [k |-> "json", v |-> v]

\* How a response is logged: "raise", "text", or the type of the parsed value.
RespKind(r) == IF r.k = "json" THEN r.v.t ELSE r.k

JStr(s) == [t |-> "str", s |-> s]
JNull == [t |-> "null"]
JNum(n) == [t |-> "num", n |-> n]

(***************************************************************************)
(* normalize_client_name (utils.py) and extract_client_info                *)
(***************************************************************************)

\* str.split(): the maximal runs of non-space characters
RECURSIVE Split(_, _, _)
Split(s, word, acc) ==
    IF s = <<>> THEN (IF word = <<>> THEN acc ELSE Append(acc, word))
    ELSE IF Head(s) = " "
         THEN Split(Tail(s), <<>>, IF word = <<>> THEN acc ELSE Append(acc, word))
         ELSE Split(Tail(s), Append(word, Head(s)), acc)

\* " ".join(words)
RECURSIVE Join(_)
Join(words) ==
    IF words = <<>> THEN <<>>
    ELSE IF Len(words) = 1 THEN Head(words)
    ELSE Head(words) \o <<" ">> \o Join(Tail(words))

normalize_client_name(name) ==
    IF name = <<>> \/ name = UNKNOWN THEN Unknown
    ELSE Join(Split(Lower(name), <<>>, <<>>))

DefaultClientInfo ==
    Obj([client_id |-> JStr(UNKNOWN), client_name |-> JStr(UNKNOWN), confidence |-> JStr(<<"low">>)])

\* "PROP-" in client_id: identifiers are sequences of tokens, the placeholder
\* prefix being one token
HasPlaceholder(id) == \E i \in 1..Len(id) : id[i] = "PROP-"

\* Python truthiness of a JSON scalar
JTruthy(v) ==
    CASE v.t = "null" -> FALSE
      [] v.t = "str" -> v.s # <<>>
      [] v.t = "num" -> v.n # 0
      [] OTHER -> TRUE

\* The post-processing of a parsed identification response: [err, value].
\* `"client_name" in x` is a key test on a dict, an element test on a list
\* and a TypeError on a number.
PostProcessClientInfo(client_info) ==
    IF client_info.t = "num" THEN [err |-> "TypeError", value |-> client_info]
    ELSE IF ~IsObj(client_info) THEN [err |-> "", value |-> client_info]
    ELSE IF ~("client_name" \in DOMAIN client_info.f /\ JTruthy(client_info.f.client_name))
    THEN [err |-> "", value |-> client_info]
    ELSE IF client_info.f.client_name.t # "str"
    THEN [err |-> "AttributeError", value |-> client_info]
    ELSE
    LET normalized_name == normalize_client_name(client_info.f.client_name.s)
        with_name == Obj([normalized_name |-> JStr(normalized_name)] @@ client_info.f)
        id == DictGet(client_info, "client_id", JNull)
        absent == "client_id" \notin DOMAIN client_info.f
    IN
    IF ~absent /\ id = JStr(UNKNOWN)
    THEN [err |-> "", value |-> Obj([client_id |-> JStr(<<"NAME-">> \o normalized_name)] @@ with_name.f)]
    ELSE IF absent THEN [err |-> "", value |-> with_name]
    ELSE IF id.t # "str" THEN [err |-> "TypeError", value |-> with_name]
    ELSE IF HasPlaceholder(id.s)
    THEN [err |-> "", value |-> Obj([client_id |-> JStr(<<"NAME-">> \o normalized_name)] @@ with_name.f)]
    ELSE [err |-> "", value |-> with_name]

\* What extract_client_info does with a response that did not raise.
extract_client_info(r) ==
    IF r.k = "json" THEN PostProcessClientInfo(r.v)
    ELSE [err |-> "", value |-> DefaultClientInfo]

(***************************************************************************)
(* detect_document_language                                                *)
(***************************************************************************)

DefaultLanguage ==
    Obj([primary_language |-> "English", language_code |-> "en", confidence |-> "low"])

\* Mutant: a fallback that does not name English.
DetectDefaultUnknown(r) ==
    IF r.k = "json" THEN r.v
    ELSE Obj([primary_language |-> "Unknown", language_code |-> "unknown", confidence |-> "low"])

\* What detect_document_language returns for a response that did not raise.
detect_document_language(r) == IF r.k = "json" THEN r.v ELSE DefaultLanguage

(***************************************************************************)
(* Inputs: the responses the Extraction Service is drawn from              *)
(***************************************************************************)

Entry(d, v) == [description |-> d, value |-> v]
EntryNoValue(d) == [description |-> d]
Details(items) == Obj([details |-> List(items)])
OrderedObj(keys, f) == [t |-> "obj", keys |-> keys, f |-> f]

\* {} : an overview that names no client
PEmpty == OrderedObj(<<>>, <<>>)
\* one client, a liability reported with a negative sign
POne ==
    OrderedObj(<<"A">>,
        [A |-> Obj([assets |-> Details(<<Entry("cash", 3)>>),
                    liabilities |-> Details(<<Entry("loan", -2)>>)])])
\* two clients; a negative asset value and a liability without a value
PTwo ==
    OrderedObj(<<"A", "B">>,
        [A |-> Obj([assets |-> Details(<<Entry("overdraft", -1)>>),
                    liabilities |-> Details(<<EntryNoValue("card")>>)]),
         B |-> Obj([assets |-> Details(<<Entry("house", 3)>>),
                    liabilities |-> Details(<<Entry("mortgage", 1)>>)])])
\* the second client's data is not an object
PBadData ==
    OrderedObj(<<"A", "B">>,
        [A |-> Obj([assets |-> Details(<<Entry("cash", 3)>>)]),
         B |-> NotADict])
\* the first client's data is not an object
PBadFirst ==
    OrderedObj(<<"A", "B">>,
        [A |-> NotADict,
         B |-> Obj([assets |-> Details(<<Entry("cash", 3)>>)])])
\* details that are not lists, no liabilities
PNoList == OrderedObj(<<"B">>, [B |-> Obj([assets |-> Obj([details |-> NotAList])])])
\* valid JSON that is a list, not an object
PList == List(<<>>)
\* one person named twice, the two display names differing in letter case
PSamePerson ==
    OrderedObj(<<"J S", "j s">>,
        ("J S" :> Obj([assets |-> Details(<<Entry("cash", 3)>>)]))
        @@ ("j s" :> Obj([liabilities |-> Details(<<Entry("loan", 2)>>)])))

OverviewPayloads ==
    {PEmpty, POne, PTwo, PBadData, PBadFirst, PNoList, PList, PSamePerson}

EnglishInfo == Obj([primary_language |-> "English", language_code |-> "en", confidence |-> "high"])
GermanInfo == Obj([primary_language |-> "German", language_code |-> "de", confidence |-> "high"])
NoCodeInfo == Obj([primary_language |-> "German"])

DetectResponses ==
    {Raise, Text, Json(EnglishInfo), Json(GermanInfo), Json(NoCodeInfo), Json(List(<<>>))}

TranslateResponses == {Raise, Text}

JohnSmith == <<"J", " ", "S">>

ClientResponses ==
    {Raise, Text,
     Json(Obj([client_id |-> JStr(<<"1", "2">>), client_name |-> JStr(JohnSmith)])),
     Json(Obj([client_id |-> JStr(UNKNOWN), client_name |-> JStr(JohnSmith)])),
     Json(List(<<>>))}

ClassifyResponses == {Raise, Text}

OverviewResponses == {Raise, Text} \cup {Json(p) : p \in OverviewPayloads}

\* a summary whose numbers agree, one whose numbers do not, and a list
NetWorthResponses ==
    {Raise, Text,
     Json(Obj([total_assets |-> 3, total_liabilities |-> 2, net_worth |-> 1])),
     Json(Obj([total_assets |-> 3, total_liabilities |-> 2, net_worth |-> 5])),
     Json(List(<<>>))}

(***************************************************************************)
(* analyze_document: one step per resumption at an await                   *)
(***************************************************************************)

Procs == {1, 2}

Call(fn, document) == [fn |-> fn, document |-> document]

IdleInv ==
    [pc |-> "idle",
     document_name |-> 0,
     language_info |-> None,
     language_code |-> "",
     document_for_processing |-> "",
     client_info |-> None,
     document_type |-> "",
     overview_data |-> None,
     raw_overview |-> None,
     idx |-> 0,
     client_net_worths |-> <<>>,
     calls |-> <<>>,
     resps |-> <<>>,
     raised |-> "",
     result |-> None]

\* the except branch of analyze_document
FailedResult(document_name, error_type) ==
    Obj([document_name |-> document_name,
         error |-> error_type,
         error_type |-> error_type,
         status |-> "failed"])

\* Mutant: a handler that catches the errors of a service call only.
IsTransportError(error_type) == error_type = "TransportError"

\* The classes `except Exception` catches: the built-in errors the pipeline's
\* own statements raise and the errors of a service call.
IsException(error_type) ==
    error_type \in {"AttributeError", "TypeError", "KeyError", "TransportError"}

\* An exception of class error_type is raised in `stage` (st is the invocation
\* after logging the response): the handler returns the failed result, and
\* what it does not catch leaves analyze_document.
Failed(st, stage, error_type) ==
    IF IsException(error_type)
    THEN [st EXCEPT !.pc = "done",
                    !.raised = stage,
                    !.result = FailedResult(st.document_name, error_type)]
    ELSE [st EXCEPT !.pc = "escaped", !.raised = stage]

Issue(st, pc, call) == [st EXCEPT !.pc = pc, !.calls = Append(@, call)]

Got(st, r) == [st EXCEPT !.resps = Append(@, RespKind(r))]

\* sum(nw.get("net_worth", 0) for nw in client_net_worths.values())
CombinedNetWorth(nws) ==
    SumSeq([i \in 1..Len(nws) |-> DictGet(nws[i].nw, "net_worth", 0)])

\* The statements after the loop: the sum raises on an entry that is no dict.
Finish(st) ==
    IF \E i \in 1..Len(st.client_net_worths) : ~IsObj(st.client_net_worths[i].nw)
    THEN Failed(st, "combine", "AttributeError")
    ELSE [st EXCEPT
            !.pc = "done",
            !.result =
                Obj([document_name |-> st.document_name,
                     document_type |-> st.document_type,
                     language |-> st.language_info,
                     client_information |-> st.client_info,
                     financial_data |-> st.overview_data,
                     net_worth |->
                        [combined_net_worth |-> CombinedNetWorth(st.client_net_worths),
                         individual_net_worth |-> st.client_net_worths]])]

\* a loop that sums every client's record locally and calls no service
RECURSIVE NetWorthLoopLocal(_, _, _)
NetWorthLoopLocal(s, st, i) ==
    IF i > Len(st.overview_data.keys) THEN Finish(st)
    ELSE
    LET client_name == st.overview_data.keys[i] IN
    NetWorthLoopLocal(s,
        [st EXCEPT !.client_net_worths =
             Append(@, [name |-> client_name,
                        nw |-> IF Has(s, client_name)
                               THEN NetWorthFallback(client_name, s.recs[client_name])
                               ELSE NetWorthNotFound(client_name)])],
        i + 1)

\* The loop over overview_data.keys() from its i-th key, up to the next await
\* (the CalculateNetWorth call of a client the ledger holds) or to the end.
RECURSIVE NetWorthLoop(_, _, _)
NetWorthLoop(s, st, i) ==
    IF i > Len(st.overview_data.keys) THEN Finish(st)
    ELSE
    LET client_name == st.overview_data.keys[i] IN
    IF ~Has(s, client_name)
    THEN NetWorthLoop(s,
             [st EXCEPT !.client_net_worths =
                  Append(@, [name |-> client_name, nw |-> NetWorthNotFound(client_name)])],
             i + 1)
    ELSE Issue([st EXCEPT !.idx = i], "networth",
               [fn |-> "CalculateNetWorth",
                client_id |-> client_name,
                assets |-> s.recs[client_name].assets,
                liabilities |-> s.recs[client_name].liabilities])

Original == "original"
Translated == "translated"
\* document_content[:1000], what language detection is given
Sample == "original[:1000]"

\* A caller invokes analyze_document: it runs to its first await, the
\* DetectLanguage call.
Start(p) ==
    /\ inv[p].pc \in {"idle", "done"}
    /\ nops < MaxDocs
    /\ nops' = nops + 1
    /\ prev_store' = client_data_store
    /\ inv' = [inv EXCEPT ![p] =
                 Issue([IdleInv EXCEPT !.document_name = nops + 1,
                                       !.document_for_processing = Original],
                       "detect", Call("DetectLanguage", Sample))]
    /\ UNCHANGED <<client_data_store, last_op, ret>>

\* extract_client_info begins: the English or the multilingual variant
IssueClient(st) ==
    Issue(st, "client",
          Call(IF st.language_code = "en"
               THEN "ExtractClientIdentifier"
               ELSE "ExtractMultilingualClientIdentifier", Original))

\* a detection stage for which a result without language_code is not English
AfterDetectNoDefault(st0, r) ==
    LET st == Got(st0, r) IN
    IF r.k = "raise" THEN Failed(st, "detect", "TransportError")
    ELSE
    LET language_info == detect_document_language(r) IN
    IF ~IsObj(language_info)
    THEN Failed([st EXCEPT !.language_info = language_info], "detect", "AttributeError")
    ELSE
    LET st1 == [st EXCEPT !.language_info = language_info,
                          !.language_code = DictGet(language_info, "language_code", "unknown")]
    IN IF st1.language_code # "en"
       THEN Issue(st1, "translate", Call("TranslateFinancialDocument", Original))
       ELSE IssueClient(st1)

\* DetectLanguage answers: steps 1 and 2 up to the next call.
AfterDetect(st0, r) ==
    LET st == Got(st0, r) IN
    IF r.k = "raise" THEN Failed(st, "detect", "TransportError")
    ELSE
    LET language_info == detect_document_language(r) IN
    IF ~IsObj(language_info)
    THEN Failed([st EXCEPT !.language_info = language_info], "detect", "AttributeError")
    ELSE
    LET st1 == [st EXCEPT !.language_info = language_info,
                          !.language_code = DictGet(language_info, "language_code", "en")]
    IN IF st1.language_code # "en"
       THEN Issue(st1, "translate", Call("TranslateFinancialDocument", Original))
       ELSE IssueClient(st1)

DetectReturns(p) ==
    /\ inv[p].pc = "detect"
    /\ \E r \in DetectResponses : inv' = [inv EXCEPT ![p] = AfterDetect(inv[p], r)]
    /\ UNCHANGED <<client_data_store, prev_store, nops, last_op, ret>>

\* Mutant: a translation stage that falls back to the original text.
AfterTranslateFailOpen(st0, r) ==
    LET st == Got(st0, r) IN
    IF r.k = "raise" THEN IssueClient(st)
    ELSE IssueClient([st EXCEPT !.document_for_processing = Translated])

\* TranslateFinancialDocument answers: document_for_processing = str(result)
AfterTranslate(st0, r) ==
    LET st == Got(st0, r) IN
    IF r.k = "raise" THEN Failed(st, "translate", "TransportError")
    ELSE IssueClient([st EXCEPT !.document_for_processing = Translated])

TranslateReturns(p) ==
    /\ inv[p].pc = "translate"
    /\ \E r \in TranslateResponses : inv' = [inv EXCEPT ![p] = AfterTranslate(inv[p], r)]
    /\ UNCHANGED <<client_data_store, prev_store, nops, last_op, ret>>

\* The identification call answers: step 3, then classify_document begins.
AfterClient(st0, r) ==
    LET st == Got(st0, r) IN
    IF r.k = "raise" THEN Failed(st, "client", "TransportError")
    ELSE
    LET info == extract_client_info(r) IN
    IF info.err # "" THEN Failed(st, "client", info.err)
    ELSE IF ~IsObj(info.value)
    THEN Failed([st EXCEPT !.client_info = info.value], "client", "AttributeError")
    ELSE Issue([st EXCEPT !.client_info = info.value], "classify",
               Call(IF st.language_code = "en"
                    THEN "ClassifyFinancialDocument"
                    ELSE "ClassifyMultilingualDocument", Original))

ClientReturns(p) ==
    /\ inv[p].pc = "client"
    /\ \E r \in ClientResponses : inv' = [inv EXCEPT ![p] = AfterClient(inv[p], r)]
    /\ UNCHANGED <<client_data_store, prev_store, nops, last_op, ret>>

\* The classification call answers: step 4, then the overview call is issued
\* with document_for_processing.
AfterClassify(st0, r) ==
    LET st == Got(st0, r) IN
    IF r.k = "raise" THEN Failed(st, "classify", "TransportError")
    ELSE Issue([st EXCEPT !.document_type = "Loans"], "overview",
               Call("ExtractOverview", st.document_for_processing))

ClassifyReturns(p) ==
    /\ inv[p].pc = "classify"
    /\ \E r \in ClassifyResponses : inv' = [inv EXCEPT ![p] = AfterClassify(inv[p], r)]
    /\ UNCHANGED <<client_data_store, prev_store, nops, last_op, ret>>

\* a parse whose failure yields a value that is no mapping
ParseOverviewNoMapping(r) == IF r.k = "json" THEN r.v ELSE NotADict

\* json.loads(str(overview_response)), {} on a JSONDecodeError
ParseOverview(r) == IF r.k = "json" THEN r.v ELSE PEmpty

\* an overview step that also opens a record under the client_id that
\* analyze_document falls back to
AfterOverviewKeyedById(s, st0, r, ts) ==
    LET st == Got(st0, r) IN
    IF r.k = "raise" THEN [store |-> s, st |-> Failed(st, "overview", "TransportError")]
    ELSE
    LET u == update_client_data_from_overview(SetupIfAbsent(s, "UNKNOWN"), ParseOverview(r), ts)
        st1 == [st EXCEPT !.raw_overview = ParseOverview(r), !.overview_data = u.payload]
    IN IF u.err # "" THEN [store |-> u.store, st |-> Failed(st1, "update", u.err)]
       ELSE [store |-> u.store, st |-> NetWorthLoop(u.store, st1, 1)]

\* an overview step that enters the net-worth loop on the ledger as it was
\* before the update
AfterOverviewLoopFirst(s, st0, r, ts) ==
    LET st == Got(st0, r) IN
    IF r.k = "raise" THEN [store |-> s, st |-> Failed(st, "overview", "TransportError")]
    ELSE
    LET u == update_client_data_from_overview(s, ParseOverview(r), ts)
        st1 == [st EXCEPT !.raw_overview = ParseOverview(r), !.overview_data = u.payload]
    IN IF u.err # "" THEN [store |-> u.store, st |-> Failed(st1, "update", u.err)]
       ELSE [store |-> u.store, st |-> NetWorthLoop(s, st1, 1)]

\* an overview step that updates the copy of the ledger taken when the latest
\* document was submitted and writes that copy back
AfterOverviewOnSnapshot(s, st0, r, ts) ==
    LET st == Got(st0, r) IN
    IF r.k = "raise" THEN [store |-> s, st |-> Failed(st, "overview", "TransportError")]
    ELSE
    LET u == update_client_data_from_overview(prev_store, ParseOverview(r), ts)
        st1 == [st EXCEPT !.raw_overview = ParseOverview(r), !.overview_data = u.payload]
    IN IF u.err # "" THEN [store |-> u.store, st |-> Failed(st1, "update", u.err)]
       ELSE [store |-> u.store, st |-> NetWorthLoop(u.store, st1, 1)]

\* ExtractOverview answers: parse, update the ledger, enter the net-worth loop.
\* [store, st]: the ledger and the invocation at the next await or at the end.
AfterOverview(s, st0, r, ts) ==
    LET st == Got(st0, r) IN
    IF r.k = "raise" THEN [store |-> s, st |-> Failed(st, "overview", "TransportError")]
    ELSE
    LET u == update_client_data_from_overview(s, ParseOverview(r), ts)
        st1 == [st EXCEPT !.raw_overview = ParseOverview(r), !.overview_data = u.payload]
    IN IF u.err # "" THEN [store |-> u.store, st |-> Failed(st1, "update", u.err)]
       ELSE [store |-> u.store, st |-> NetWorthLoop(u.store, st1, 1)]

OverviewReturns(p) ==
    /\ inv[p].pc = "overview"
    /\ \E r \in OverviewResponses :
         LET a == AfterOverview(client_data_store, inv[p], r, nops) IN
         /\ client_data_store' = a.store
         /\ inv' = [inv EXCEPT ![p] = a.st]
    /\ UNCHANGED <<prev_store, nops, last_op, ret>>

\* CalculateNetWorth answers for the idx-th client; the loop goes on.  The
\* fallback sums the record calculate_net_worth looked up before the call: the
\* same object the ledger still holds, as no step of the pipeline replaces or
\* deletes a record.
AfterNetWorth(s, st0, r) ==
    LET st == Got(st0, r)
        client_name == st.overview_data.keys[st.idx]
    IN
    IF r.k = "raise" THEN Failed(st, "networth", "TransportError")
    ELSE NetWorthLoop(s,
            [st EXCEPT !.client_net_worths =
                Append(@, [name |-> client_name,
                           nw |-> NetWorthReturn(client_name, s.recs[client_name], r)])],
            st.idx + 1)

\* a net-worth step that, when the call raises, restores the ledger to what it
\* was when the document was submitted
NetWorthReturnsRollingBack(p) ==
    /\ inv[p].pc = "networth"
    /\ \E r \in NetWorthResponses :
         /\ inv' = [inv EXCEPT ![p] = AfterNetWorth(client_data_store, inv[p], r)]
         /\ client_data_store' = IF r.k = "raise" THEN prev_store ELSE client_data_store
    /\ UNCHANGED <<prev_store, nops, last_op, ret>>

NetWorthReturns(p) ==
    /\ inv[p].pc = "networth"
    /\ \E r \in NetWorthResponses :
         inv' = [inv EXCEPT ![p] = AfterNetWorth(client_data_store, inv[p], r)]
    /\ UNCHANGED <<client_data_store, prev_store, nops, last_op, ret>>

NoOp == [op |-> "none"]

Init ==
    /\ client_data_store = EmptyStore
    /\ prev_store = EmptyStore
    /\ nops = 0
    /\ last_op = NoOp
    /\ ret = None
    /\ inv = [p \in Procs |-> IdleInv]

Step(p) ==
    \/ Start(p)
    \/ DetectReturns(p)
    \/ TranslateReturns(p)
    \/ ClientReturns(p)
    \/ ClassifyReturns(p)
    \/ OverviewReturns(p)
    \/ NetWorthReturns(p)

\* One caller, one document after the other.
Next == Step(1)

Spec == Init /\ [][Next]_vars

(***************************************************************************)
(* The ledger API called directly, one call after the other                *)
(***************************************************************************)

ClientIds == {"A", "B", "UNKNOWN"}
DataTypes == {"asset", "liability", "income"}

UpdateData ==
    {Obj([assets |-> List(<<Entry("bond", 2)>>)]),
     Obj([liabilities |-> List(<<Entry("loan", -2), EntryNoValue("card")>>)]),
     Obj([details |-> List(<<Entry("misc", -1)>>)]),
     Obj([assets |-> NotAList])}

Named(name, assets, liabilities) ==
    [assets |-> assets,
     liabilities |-> liabilities,
     documents_processed |-> <<>>,
     client_info |-> Obj([client_name |-> name])]

\* a snapshot whose liability carries a negative value
SnapNegative ==
    Obj([clients |->
        [keys |-> <<"A">>,
         recs |-> [A |-> Named(JohnSmith, <<Entry("cash", 3)>>, <<Entry("loan", -2)>>)]]])
\* three records of one person, the names differing in case and outer spaces
SnapSamePerson ==
    Obj([clients |->
        [keys |-> <<"A", "B", "C">>,
         recs |-> [A |-> Named(JohnSmith, <<Entry("cash", 3)>>, <<>>),
                   B |-> [Named(<<"j", " ", "s">>, <<Entry("house", 3)>>, <<Entry("mortgage", 1)>>)
                            EXCEPT !.documents_processed = <<OverviewEvent(0)>>],
                   C |-> [Named(<<" ", "J", " ", "S", " ">>, <<>>, <<Entry("card", 2)>>)
                            EXCEPT !.documents_processed =
                                <<UpdateEvent("liability", Obj([liabilities |-> List(<<>>)]), 0)>>]]]])
\* two records of one person, the names differing in the number of spaces
\* between the words
SnapSpacing ==
    Obj([clients |->
        [keys |-> <<"B", "C">>,
         recs |-> [B |-> Named(JohnSmith, <<Entry("cash", 3)>>, <<>>),
                   C |-> Named(<<"J", " ", " ", "S">>, <<Entry("house", 3)>>, <<>>)]]])
\* a snapshot without the "clients" key
SnapNoClients == Obj([export_timestamp |-> 0])

Snapshots == {SnapNegative, SnapSamePerson, SnapSpacing, SnapNoClients}

Begin(op) ==
    /\ nops < MaxOps
    /\ nops' = nops + 1
    /\ prev_store' = client_data_store
    /\ last_op' = op
    /\ UNCHANGED inv

OpOverview ==
    \E payload \in OverviewPayloads :
        LET u == update_client_data_from_overview(client_data_store, payload, nops + 1) IN
        /\ Begin([op |-> "update_client_data_from_overview", payload |-> payload])
        /\ client_data_store' = u.store
        /\ ret' = [err |-> u.err, payload |-> u.payload]

OpUpdate ==
    \E client_id \in ClientIds, data_type \in DataTypes, data \in UpdateData :
        /\ Begin([op |-> "update_client_data", client_id |-> client_id,
                  data_type |-> data_type, data |-> data])
        /\ client_data_store' =
               update_client_data(client_data_store, client_id, data_type, data, nops + 1)
        /\ ret' = None

OpReconcile ==
    LET m == reconcile_client_records(client_data_store, nops + 1) IN
    /\ Begin([op |-> "reconcile_client_records"])
    /\ client_data_store' = m.store
    /\ ret' = [count |-> m.count]

\* import_client_data(data): data is a stored snapshot, or the snapshot
\* export_client_data() has just returned for this ledger
OpImport ==
    \E data \in Snapshots \cup {export_client_data(client_data_store, nops)} :
        LET i == import_client_data(client_data_store, data) IN
        /\ Begin([op |-> "import_client_data", data |-> data])
        /\ client_data_store' = i.store
        /\ ret' = [count |-> i.count]

OpExport ==
    /\ Begin([op |-> "export_client_data"])
    /\ ret' = export_client_data(client_data_store, nops + 1)
    /\ UNCHANGED client_data_store

\* calculate_net_worth called directly: no service call for an unknown client
OpNetWorth ==
    \E client_id \in ClientIds, r \in NetWorthResponses :
        /\ Begin([op |-> "calculate_net_worth", client_id |-> client_id,
                  called |-> Has(client_data_store, client_id),
                  resp |-> IF Has(client_data_store, client_id) THEN RespKind(r) ELSE "none"])
        /\ ret' = IF ~Has(client_data_store, client_id) THEN NetWorthNotFound(client_id)
                  ELSE IF r.k = "raise" THEN [t |-> "raised", error_type |-> "TransportError"]
                  ELSE NetWorthReturn(client_id, client_data_store.recs[client_id], r)
        /\ UNCHANGED client_data_store

OpSummary ==
    \E client_id \in ClientIds :
        /\ Begin([op |-> "get_client_summary", client_id |-> client_id])
        /\ ret' = get_client_summary(client_data_store, client_id)
        /\ UNCHANGED client_data_store

LedgerNext ==
    \/ OpOverview
    \/ OpUpdate
    \/ OpReconcile
    \/ OpImport
    \/ OpExport
    \/ OpNetWorth
    \/ OpSummary

LedgerSpec == Init /\ [][LedgerNext]_vars

(***************************************************************************)
(* Documents analyzed one after the other, reconciliation run in between   *)
(***************************************************************************)

\* reconcile_client_records() called while no analyze_document is running
ReconcileBetweenDocuments ==
    /\ inv[1].pc \in {"idle", "done"}
    /\ OpReconcile

SessionNext ==
    \/ Step(1)
    \/ ReconcileBetweenDocuments

SessionSpec == Init /\ [][SessionNext]_vars

(***************************************************************************)
(* A ledger restored from a snapshot, then ingestion, import and           *)
(* reconciliation                                                          *)
(***************************************************************************)

\* The system was constructed and import_client_data(data) restored a
\* snapshot; nops counts the calls made from there on.
RestoredInit ==
    \E data \in Snapshots :
        /\ client_data_store = import_client_data(EmptyStore, data).store
        /\ prev_store = EmptyStore
        /\ nops = 0
        /\ last_op = [op |-> "import_client_data", data |-> data]
        /\ ret = [count |-> import_client_data(EmptyStore, data).count]
        /\ inv = [p \in Procs |-> IdleInv]

RestoredNext ==
    \/ OpOverview
    \/ OpImport
    \/ OpReconcile

RestoredSpec == RestoredInit /\ [][RestoredNext]_vars

(***************************************************************************)
(* extract_client_info applied to one identification response              *)
(***************************************************************************)

MaxNameLen == 3

NameChars == {"J", " ", "s"}

\* every string of at most MaxNameLen characters, the empty one included
Names == UNION {[1..n -> NameChars] : n \in 0..MaxNameLen}

\* what the response gives as client_name: a string, the literal UNKNOWN, null
NameValues == {JStr(n) : n \in Names} \cup {JStr(UNKNOWN), JNull}

\* what the response gives as client_id: UNKNOWN, a placeholder, an account
\* number, null
IdValues == {JStr(UNKNOWN), JStr(<<"PROP-", "1">>), JStr(<<"1", "2">>), JNull}

\* the parsed objects: each of the two keys present or missing
IdentificationObjects ==
    {Obj([confidence |-> JStr(<<"high">>)] @@ name @@ id) :
        name \in {<<>>} \cup {[client_name |-> v] : v \in NameValues},
        id \in {<<>>} \cup {[client_id |-> v] : v \in IdValues}}

IdentificationResponses == {Text} \cup {Json(o) : o \in IdentificationObjects}

\* the identification call has answered with some response r
ClientInfoInit ==
    /\ client_data_store = EmptyStore
    /\ prev_store = EmptyStore
    /\ nops = 0
    /\ inv = [p \in Procs |-> IdleInv]
    /\ ret = None
    /\ last_op \in {[op |-> "extract_client_info", resp |-> r, returned |-> FALSE] :
                        r \in IdentificationResponses}

\* extract_client_info parses and post-processes the response and returns
ExtractClientInfo ==
    /\ last_op.op = "extract_client_info"
    /\ ~last_op.returned
    /\ last_op' = [last_op EXCEPT !.returned = TRUE]
    /\ ret' = extract_client_info(last_op.resp)
    /\ UNCHANGED <<client_data_store, prev_store, nops, inv>>

ClientInfoSpec == ClientInfoInit /\ [][ExtractClientInfo]_vars

(***************************************************************************)
(* Properties                                                              *)
(***************************************************************************)

FailedKeys == {"document_name", "error", "error_type", "status"}

\* the position of the call to fn in the invocation's call log, 0 if none
CallIndex(st, fn) ==
    IF \E i \in 1..Len(st.calls) : st.calls[i].fn = fn
    THEN CHOOSE i \in 1..Len(st.calls) : st.calls[i].fn = fn
    ELSE 0

Called(st, fn) == CallIndex(st, fn) # 0

\* the logged kind of the response to the call to fn, "none" if unanswered
ResponseTo(st, fn) ==
    IF Called(st, fn) /\ CallIndex(st, fn) <= Len(st.resps)
    THEN st.resps[CallIndex(st, fn)]
    ELSE "none"

\* C1: analyze_document never raises to its caller: whatever the service does,
\* no exception leaves it; a finished invocation holds a result object, which
\* is exactly {document_name, error, error_type, status: "failed"} when a
\* stage raised, and carries no status otherwise.
C1_NeverRaises ==
    \A p \in Procs :
        /\ inv[p].pc # "escaped"
        /\ inv[p].pc = "done" =>
            /\ IsObj(inv[p].result)
            /\ inv[p].raised # "" =>
                /\ DOMAIN inv[p].result.f = FailedKeys
                /\ inv[p].result.f.status = "failed"
                /\ inv[p].result.f.document_name = inv[p].document_name
            /\ inv[p].raised = "" => "status" \notin DOMAIN inv[p].result.f

\* C1 witness: an invocation ended by an AttributeError raised while the
\* ledger was being updated, and returned the failed result.
C1_Witness ==
    /\ inv[1].pc = "done"
    /\ inv[1].raised = "update"
    /\ inv[1].result.f.error_type = "AttributeError"
    /\ inv[1].result.f.status = "failed"

\* C2: when the detection response is not valid JSON, the detected language is
\* {primary_language: English, language_code: en, confidence: low}, no
\* translation call is issued and the English variants of identification and
\* classification are the ones called.
C2_MalformedDetection ==
    \A p \in Procs :
        ResponseTo(inv[p], "DetectLanguage") = "text" =>
            /\ inv[p].language_info =
                 Obj([primary_language |-> "English", language_code |-> "en", confidence |-> "low"])
            /\ ~Called(inv[p], "TranslateFinancialDocument")
            /\ ~Called(inv[p], "ExtractMultilingualClientIdentifier")
            /\ ~Called(inv[p], "ClassifyMultilingualDocument")
            /\ inv[p].raised # "detect"
            /\ CallIndex(inv[p], "ExtractClientIdentifier") = 2
            /\ Len(inv[p].calls) >= 3 => inv[p].calls[3].fn = "ClassifyFinancialDocument"
            /\ Len(inv[p].calls) >= 4 => inv[p].calls[4] = Call("ExtractOverview", Original)

\* C2 witness: a document whose detection response was unparsable went all
\* the way to a successful result.
C2_Witness ==
    /\ ResponseTo(inv[1], "DetectLanguage") = "text"
    /\ inv[1].pc = "done"
    /\ inv[1].raised = ""
    /\ Called(inv[1], "ExtractOverview")

\* C3 (as claimed): no response text of the detection call makes
\* analyze_document end with a failed result at language detection.
C3_DetectionNeverAborts ==
    \A p \in Procs :
        ResponseTo(inv[p], "DetectLanguage") \in {"text", "obj", "list"} =>
            inv[p].raised # "detect"

\* C4 (as claimed): a failed translation call does not end the document with a
\* failed result; the overview stage is then called with the original text.
C4_TranslationFailOpen ==
    \A p \in Procs :
        ResponseTo(inv[p], "TranslateFinancialDocument") = "raise" =>
            /\ inv[p].raised # "translate"
            /\ Called(inv[p], "ExtractMultilingualClientIdentifier")

\* C4 (amended): a translation call that raises ends the document: the result
\* is the failed result, no identification, classification or overview call
\* follows and the ledger is as it was when the call began; and whenever
\* translation was invoked and the overview stage is called, its input is the
\* translation, not the original text.
C4_TranslationFailure ==
    \A p \in Procs :
        /\ ResponseTo(inv[p], "TranslateFinancialDocument") = "raise" =>
            /\ inv[p].pc = "done"
            /\ inv[p].result = FailedResult(inv[p].document_name, "TransportError")
            /\ Len(inv[p].calls) = 2
            /\ client_data_store = prev_store
        /\ (Called(inv[p], "TranslateFinancialDocument") /\ Called(inv[p], "ExtractOverview")) =>
            inv[p].calls[CallIndex(inv[p], "ExtractOverview")].document = Translated

\* C4 witness: the translation call of a German document raised.
C4_Witness ==
    /\ inv[1].language_code = "de"
    /\ ResponseTo(inv[1], "TranslateFinancialDocument") = "raise"
    /\ inv[1].pc = "done"

\* C5 (as claimed): when the overview names several clients and the net-worth
\* computation of one of them fails, the document still ends with a result
\* that reports a net worth for every client of the overview.
C5_PartialFailure ==
    \A p \in Procs :
        (/\ inv[p].pc = "done"
         /\ Called(inv[p], "CalculateNetWorth")
         /\ Len(inv[p].overview_data.keys) >= 2) =>
            /\ "net_worth" \in DOMAIN inv[p].result.f
            /\ Len(inv[p].result.f.net_worth.individual_net_worth) = Len(inv[p].overview_data.keys)

AllEntries(field) ==
    UNION {{client_data_store.recs[k][field][i] :
                i \in 1..Len(client_data_store.recs[k][field])} :
           k \in DOMAIN client_data_store.recs}

\* C6 (as claimed): after any sequence of ingestion, reconcile and import
\* calls, every liability entry the ledger stores has a value >= 0.
C6_LiabilitiesNonNegative ==
    \A e \in AllEntries("liabilities") : "value" \in DOMAIN e => e.value >= 0

\* C7 (as claimed): after an overview payload is ingested, every asset entry
\* the ledger stores has a non-negative value.
C7_AssetsNonNegative ==
    last_op.op = "update_client_data_from_overview" =>
        \A e \in AllEntries("assets") : "value" \in DOMAIN e => e.value >= 0

IsPrefix(a, b) == Len(a) <= Len(b) /\ SubSeq(b, 1, Len(a)) = a

\* the asset details the payload supplies for client k, as the service gave them
SuppliedAssets(payload, k) ==
    LET details == DictGet(DictGet(payload.f[k], "assets", EmptyObj), "details", List(<<>>))
    IN IF IsList(details) THEN details.items ELSE <<>>

SuppliedLiabilities(payload, k) ==
    LET details == DictGet(DictGet(payload.f[k], "liabilities", EmptyObj), "details", List(<<>>))
    IN IF IsList(details) THEN details.items ELSE <<>>

ListOr(s, k, field) == IF Has(s, k) THEN s.recs[k][field] ELSE <<>>

\* C7 (amended): an ingestion that completes appends the asset details of
\* every client of the payload exactly as supplied, a negative value staying
\* negative: assets are not sign-normalised.
C7_AssetsStoredAsSupplied ==
    [][(/\ last_op'.op = "update_client_data_from_overview"
        /\ nops' = nops + 1
        /\ ret'.err = "")
       => \A i \in 1..Len(last_op'.payload.keys) :
            LET k == last_op'.payload.keys[i] IN
            client_data_store'.recs[k].assets =
                ListOr(client_data_store, k, "assets") \o SuppliedAssets(last_op'.payload, k)]_vars

\* C7 witness: an asset supplied with a negative value is in the ledger.
C7_Witness ==
    /\ last_op.op = "update_client_data_from_overview"
    /\ ret.err = ""
    /\ \E e \in AllEntries("assets") : "value" \in DOMAIN e /\ e.value < 0

IngestOps == {"update_client_data_from_overview", "update_client_data"}

\* C8: every call of update_client_data_from_overview or update_client_data
\* keeps every client and leaves each asset and liability list with its old
\* content as a prefix; an overview ingestion that completes appends to each
\* client of the payload exactly that client's details, in payload order
\* (liabilities sign-normalised).
C8_AppendMonotonic ==
    [][(last_op'.op \in IngestOps /\ nops' = nops + 1)
       => /\ \A k \in DOMAIN client_data_store.recs :
               /\ Has(client_data_store', k)
               /\ IsPrefix(client_data_store.recs[k].assets, client_data_store'.recs[k].assets)
               /\ IsPrefix(client_data_store.recs[k].liabilities,
                           client_data_store'.recs[k].liabilities)
          /\ (last_op'.op = "update_client_data_from_overview" /\ ret'.err = "") =>
               \A i \in 1..Len(last_op'.payload.keys) :
                 LET k == last_op'.payload.keys[i] IN
                 /\ client_data_store'.recs[k].assets =
                      ListOr(client_data_store, k, "assets")
                        \o SuppliedAssets(last_op'.payload, k)
                 /\ client_data_store'.recs[k].liabilities =
                      ListOr(client_data_store, k, "liabilities")
                        \o NormalizeLiabilities(SuppliedLiabilities(last_op'.payload, k))]_vars

\* C8 witness: a second ingestion appended to lists that already held entries.
C8_Witness ==
    /\ last_op.op \in IngestOps
    /\ nops = 2
    /\ \E k \in DOMAIN prev_store.recs :
         /\ prev_store.recs[k].assets # <<>>
         /\ Len(client_data_store.recs[k].assets) > Len(prev_store.recs[k].assets)

Total(s, k, field) == IF Has(s, k) THEN SumValues(s.recs[k][field]) ELSE 0

\* C9: ingesting the same overview payload a second time, right after the
\* first, adds the same entries again: a client the first ingestion created
\* holds every asset and liability entry twice and get_client_summary reports
\* exactly double totals; for any client the second ingestion adds to the
\* totals what the first one added.
C9_NotIdempotent ==
    [][(/\ last_op.op = "update_client_data_from_overview"
        /\ last_op' = last_op
        /\ nops' = nops + 1)
       => \A k \in DOMAIN client_data_store.recs :
            /\ Has(client_data_store', k)
            /\ Total(client_data_store', k, "assets") - Total(client_data_store, k, "assets")
                 = Total(client_data_store, k, "assets") - Total(prev_store, k, "assets")
            /\ Total(client_data_store', k, "liabilities") - Total(client_data_store, k, "liabilities")
                 = Total(client_data_store, k, "liabilities") - Total(prev_store, k, "liabilities")
            /\ ~Has(prev_store, k) =>
                 /\ client_data_store'.recs[k].assets =
                      client_data_store.recs[k].assets \o client_data_store.recs[k].assets
                 /\ client_data_store'.recs[k].liabilities =
                      client_data_store.recs[k].liabilities \o client_data_store.recs[k].liabilities
                 /\ get_client_summary(client_data_store', k).f.total_assets =
                      2 * get_client_summary(client_data_store, k).f.total_assets
                 /\ get_client_summary(client_data_store', k).f.total_liabilities =
                      2 * get_client_summary(client_data_store, k).f.total_liabilities]_vars

\* C9 witness: the one-client payload was ingested twice into an empty ledger
\* and the client's totals are 6 and 4, twice the 3 and 2 of one ingestion.
C9_Witness ==
    /\ last_op = [op |-> "update_client_data_from_overview", payload |-> POne]
    /\ nops = 2
    /\ prev_store.keys = <<"A">>
    /\ Total(prev_store, "A", "assets") = 3
    /\ Total(client_data_store, "A", "assets") = 6
    /\ Total(client_data_store, "A", "liabilities") = 4

\* C10 (as claimed): every summary returned by calculate_net_worth or
\* get_client_summary satisfies net_worth = total_assets - total_liabilities.
C10_NetWorthIdentity ==
    (/\ last_op.op \in {"calculate_net_worth", "get_client_summary"}
     /\ IsObj(ret)
     /\ "net_worth" \in DOMAIN ret.f)
    => ret.f.net_worth = ret.f.total_assets - ret.f.total_liabilities

\* the sum of the values of a list of entries, an entry without value adding 0
RECURSIVE Worth(_)
Worth(entries) ==
    IF entries = <<>> THEN 0
    ELSE (IF "value" \in DOMAIN Head(entries) THEN Head(entries).value ELSE 0)
         + Worth(Tail(entries))

\* C11: when the response to the net-worth call is not parsable JSON,
\* calculate_net_worth of a client of the ledger returns the local fallback:
\* total_assets is the sum of the values of the client's assets,
\* total_liabilities the sum of the values of the client's liabilities (an
\* entry without value counting 0) and net_worth their difference, so the three
\* numbers are a function of the ledger alone; the ledger is not changed.
C11_LocalFallback ==
    (/\ last_op.op = "calculate_net_worth"
     /\ last_op.called
     /\ last_op.resp = "text")
    => /\ IsObj(ret)
       /\ ret.f.client_id = last_op.client_id
       /\ ret.f.total_assets = Worth(client_data_store.recs[last_op.client_id].assets)
       /\ ret.f.total_liabilities = Worth(client_data_store.recs[last_op.client_id].liabilities)
       /\ ret.f.net_worth = ret.f.total_assets - ret.f.total_liabilities
       /\ client_data_store = prev_store

\* C11 witness: the fallback was computed for a client one of whose
\* liabilities has no value, and the liabilities it reports are not zero.
C11_Witness ==
    /\ last_op.op = "calculate_net_worth"
    /\ last_op.called
    /\ last_op.resp = "text"
    /\ \E i \in 1..Len(client_data_store.recs[last_op.client_id].liabilities) :
         "value" \notin DOMAIN client_data_store.recs[last_op.client_id].liabilities[i]
    /\ ret.f.total_liabilities > 0

\* C12: calculate_net_worth for a key the ledger does not hold returns
\* error = "Client not found" with total_assets = total_liabilities =
\* net_worth = 0, issues no service call, and leaves the ledger as it was: no
\* record is created for the key.
C12_ClientNotFound ==
    (/\ last_op.op = "calculate_net_worth"
     /\ ~Has(prev_store, last_op.client_id))
    => /\ IsObj(ret)
       /\ "error" \in DOMAIN ret.f
       /\ ret.f.error = "Client not found"
       /\ ret.f.total_assets = 0
       /\ ret.f.total_liabilities = 0
       /\ ret.f.net_worth = 0
       /\ ~last_op.called
       /\ last_op.resp = "none"
       /\ client_data_store = prev_store
       /\ ~Has(client_data_store, last_op.client_id)

\* C12 witness: the net worth of client B was asked of a ledger that holds
\* other clients but not B.
C12_Witness ==
    /\ last_op.op = "calculate_net_worth"
    /\ last_op.client_id = "B"
    /\ client_data_store.keys # <<>>
    /\ ~Has(client_data_store, "B")
    /\ ret.f.error = "Client not found"

\* the invocation got an overview that is an object naming exactly two
\* clients, neither of them in the ledger when the document began
TwoNewClients(st) ==
    /\ ResponseTo(st, "ExtractOverview") = "obj"
    /\ Len(st.raw_overview.keys) = 2
    /\ \A i \in 1..2 : ~Has(prev_store, st.raw_overview.keys[i])

\* C13 (as claimed): when the overview response is valid JSON naming two
\* clients not yet in the ledger, analyze_document adds exactly two ledger
\* records, individual_net_worth has exactly those two clients as entries and
\* combined_net_worth is the sum of the two entries' net_worth values.
C13_TwoNewClients ==
    \A p \in Procs :
        (inv[p].pc = "done" /\ TwoNewClients(inv[p])) =>
            /\ client_data_store.keys = prev_store.keys \o inv[p].raw_overview.keys
            /\ "net_worth" \in DOMAIN inv[p].result.f
            /\ LET net_worth == inv[p].result.f.net_worth
                   individual == net_worth.individual_net_worth
               IN /\ [i \in 1..Len(individual) |-> individual[i].name] = inv[p].raw_overview.keys
                  /\ net_worth.combined_net_worth =
                       DictGet(individual[1].nw, "net_worth", 0)
                       + DictGet(individual[2].nw, "net_worth", 0)

ResultKeys == {"document_name", "document_type", "client_information", "net_worth"}

\* the overview response was unparsable, or parsed to the empty mapping
EmptyOverview(st) ==
    \/ ResponseTo(st, "ExtractOverview") = "text"
    \/ ResponseTo(st, "ExtractOverview") = "obj" /\ st.raw_overview = PEmpty

\* C14: when the overview response is malformed JSON or the empty mapping,
\* analyze_document goes on with an empty mapping: the ledger stays as it was
\* when the document began, no net-worth call is made, and the document ends
\* with a result that is not the failed one and has the keys document_name,
\* document_type, client_information and net_worth.
C14_EmptyOverview ==
    \A p \in Procs :
        EmptyOverview(inv[p]) =>
            /\ inv[p].overview_data = PEmpty
            /\ client_data_store = prev_store
            /\ ~Called(inv[p], "CalculateNetWorth")
            /\ inv[p].pc = "done"
            /\ inv[p].raised = ""
            /\ IsObj(inv[p].result)
            /\ ResultKeys \subseteq DOMAIN inv[p].result.f
            /\ "status" \notin DOMAIN inv[p].result.f
            /\ inv[p].result.f.document_name = inv[p].document_name
            /\ inv[p].result.f.net_worth.individual_net_worth = <<>>
            /\ inv[p].result.f.net_worth.combined_net_worth = 0

\* C14 witness: a second document's overview response was unparsable while the
\* ledger already held a client of the first document.
C14_Witness ==
    /\ ResponseTo(inv[1], "ExtractOverview") = "text"
    /\ inv[1].pc = "done"
    /\ inv[1].document_name = 2
    /\ client_data_store.keys # <<>>

\* the client name a record carries in its client_info, <<>> if it has none
ClientName(rec) ==
    IF "client_info" \in DOMAIN rec /\ "client_name" \in DOMAIN rec.client_info.f
    THEN rec.client_info.f.client_name
    ELSE <<>>

\* the name lowercased and trimmed of outer whitespace
TrimmedLower(name) == Strip(Lower(name))

\* the name identifies a person: it is neither empty nor "unknown"
NamesAPerson(name) == TrimmedLower(name) # <<>> /\ TrimmedLower(name) # Unknown

\* the keys of s, in insertion order, whose records carry a name equal to
\* `name` once lowercased and trimmed
SameName(s, name) ==
    SelectSeq(s.keys, LAMBDA k : TrimmedLower(ClientName(s.recs[k])) = TrimmedLower(name))

RECURSIVE Squeeze(_)
Squeeze(s) ==
    IF Len(s) < 2 THEN s
    ELSE IF s[1] = " " /\ s[2] = " " THEN Squeeze(Tail(s))
    ELSE <<Head(s)>> \o Squeeze(Tail(s))

\* the name lowercased, its whitespace runs collapsed, trimmed
Collapsed(name) == Strip(Squeeze(Lower(name)))

\* C16 (as claimed): reconcile_client_records groups case- and
\* whitespace-insensitively: after it, no two records are left whose client
\* names (a person's names) differ only in letter case or in leading, trailing
\* or repeated spaces.
C16_WhitespaceInsensitive ==
    last_op.op = "reconcile_client_records" =>
        \A k1, k2 \in DOMAIN client_data_store.recs :
            (/\ k1 # k2
             /\ NamesAPerson(ClientName(client_data_store.recs[k1]))
             /\ NamesAPerson(ClientName(client_data_store.recs[k2])))
            => Collapsed(ClientName(client_data_store.recs[k1]))
                 # Collapsed(ClientName(client_data_store.recs[k2]))

\* the characters of a ledger key that is a display name
DisplayName(k) ==
    CASE k = "J S" -> <<"J", " ", "S">>
      [] k = "j s" -> <<"j", " ", "s">>
      [] k = "UNKNOWN" -> UNKNOWN
      [] OTHER -> <<k>>

\* the name of the person a record belongs to: the client name of its
\* client_info and, for a record without one, the display name it is keyed by
PersonName(s, k) ==
    IF ClientName(s.recs[k]) # <<>> THEN ClientName(s.recs[k]) ELSE DisplayName(k)

\* C17 (as claimed): a reconcile_client_records() call that follows analyzed
\* documents leaves no two ledger records with the same normalized client
\* name: the records of one person, such as those keyed 'J S' and 'j s' by an
\* overview, are merged into one.
C17_OnePersonOneKey ==
    [][(/\ last_op'.op = "reconcile_client_records"
        /\ nops' = nops + 1
        /\ inv' = inv)
       => \A k1, k2 \in DOMAIN client_data_store'.recs :
            (/\ k1 # k2
             /\ NamesAPerson(PersonName(client_data_store', k1))
             /\ NamesAPerson(PersonName(client_data_store', k2)))
            => Collapsed(PersonName(client_data_store', k1))
                 # Collapsed(PersonName(client_data_store', k2))]_vars

\* the step is a call of reconcile_client_records()
ReconcileStep ==
    /\ last_op'.op = "reconcile_client_records"
    /\ nops' = nops + 1
    /\ inv' = inv

MergedFields == {"assets", "liabilities", "documents_processed"}

\* the record `new` is the record `old` with, in each list, the entries of the
\* record `gone` appended somewhere after old's own
AppendedTo(gone, old, new) ==
    \A field \in MergedFields :
        /\ IsPrefix(old[field], new[field])
        /\ \E i \in Len(old[field])..(Len(new[field]) - Len(gone[field])) :
             SubSeq(new[field], i + 1, i + Len(gone[field])) = gone[field]

\* C18: a ledger record is never deleted except when merged away: a step of
\* analyze_document, update_client_data, update_client_data_from_overview,
\* calculate_net_worth, get_client_summary, export_client_data or
\* import_client_data removes no key from the ledger, and a key that
\* reconcile_client_records removes belonged to a record whose assets,
\* liabilities and history were appended to a record that survives.
C18_NeverDeleted ==
    [][LET removed == DOMAIN client_data_store.recs \ DOMAIN client_data_store'.recs IN
       /\ ~ReconcileStep => removed = {}
       /\ ReconcileStep =>
            \A k \in removed :
                \E p \in DOMAIN client_data_store.recs \cap DOMAIN client_data_store'.recs :
                    /\ AppendedTo(client_data_store.recs[k],
                                  client_data_store.recs[p],
                                  client_data_store'.recs[p])
                    /\ \E j \in 1..Len(client_data_store'.recs[p].merge_history) :
                         client_data_store'.recs[p].merge_history[j].merged_from_id = k]_vars

\* C18 witness: reconciliation removed record B, whose asset is now held by a
\* record that was there before.
C18_Witness ==
    /\ last_op.op = "reconcile_client_records"
    /\ Has(prev_store, "B")
    /\ ~Has(client_data_store, "B")
    /\ prev_store.recs["B"].assets # <<>>
    /\ \E p \in DOMAIN client_data_store.recs :
         \E i \in 1..Len(client_data_store.recs[p].assets) :
             client_data_store.recs[p].assets[i] = prev_store.recs["B"].assets[1]

\* extract_client_info has returned a value (it did not raise)
Returned == last_op.op = "extract_client_info" /\ last_op.returned /\ ret.err = ""

\* C19 (as claimed): whenever extract_client_info returns a result in which
\* client_name is present, the default result of a parse failure included, the
\* result carries normalized_name: the client name lowercased, its whitespace
\* runs collapsed to one space, trimmed.
C19_NormalizedNameAttached ==
    (/\ Returned
     /\ IsObj(ret.value)
     /\ "client_name" \in DOMAIN ret.value.f
     /\ ret.value.f.client_name.t = "str")
    => /\ "normalized_name" \in DOMAIN ret.value.f
       /\ ret.value.f.normalized_name = JStr(Collapsed(ret.value.f.client_name.s))

\* the parsed response gives no strong client_id: the id is missing, null,
\* 'UNKNOWN' or begins with the placeholder prefix
NoStrongId(f) ==
    \/ "client_id" \notin DOMAIN f
    \/ f.client_id = JNull
    \/ f.client_id = JStr(UNKNOWN)
    \/ f.client_id.t = "str" /\ f.client_id.s # <<>> /\ Head(f.client_id.s) = "PROP-"

\* C20 (as claimed): whenever the identification response has a non-empty
\* client_name, extract_client_info returns without raising; the client_id of
\* its result is 'NAME-' followed by the normalized name when the response has
\* no strong client_id, and the response's client_id otherwise.
C20_DerivedKey ==
    (/\ last_op.op = "extract_client_info"
     /\ last_op.returned
     /\ last_op.resp.k = "json"
     /\ "client_name" \in DOMAIN last_op.resp.v.f
     /\ last_op.resp.v.f.client_name.t = "str"
     /\ last_op.resp.v.f.client_name.s # <<>>)
    => /\ ret.err = ""
       /\ "client_id" \in DOMAIN ret.value.f
       /\ ret.value.f.client_id =
            IF NoStrongId(last_op.resp.v.f)
            THEN JStr(<<"NAME-">> \o Collapsed(last_op.resp.v.f.client_name.s))
            ELSE last_op.resp.v.f.client_id

\* how many calls to fn the invocation has issued
CallCount(st, fn) == Cardinality({i \in 1..Len(st.calls) : st.calls[i].fn = fn})

ClassifyCalls == {"ClassifyFinancialDocument", "ClassifyMultilingualDocument"}

\* the classification call has answered without raising
Classified(st) ==
    \E fn \in ClassifyCalls : Called(st, fn) /\ ResponseTo(st, fn) \notin {"none", "raise"}

\* C21: translation is invoked if and only if the detected language code is
\* not 'en', a detection result without language_code counting as 'en';
\* whenever the overview stage is called it is given the translation if
\* translation was invoked and the original text otherwise; and the overview
\* stage is called once per document: never twice, and exactly once as soon as
\* the stages before it have completed.
C21_TranslateIffNotEnglish ==
    \A p \in Procs :
        /\ (ResponseTo(inv[p], "DetectLanguage") \notin {"none", "raise"}
              /\ IsObj(inv[p].language_info)) =>
             (Called(inv[p], "TranslateFinancialDocument")
                <=> DictGet(inv[p].language_info, "language_code", "en") # "en")
        /\ ~IsObj(inv[p].language_info) => ~Called(inv[p], "TranslateFinancialDocument")
        /\ CallCount(inv[p], "TranslateFinancialDocument") <= 1
        /\ Called(inv[p], "ExtractOverview") =>
             inv[p].calls[CallIndex(inv[p], "ExtractOverview")].document =
                 IF ResponseTo(inv[p], "TranslateFinancialDocument") \notin {"none", "raise"}
                 THEN Translated ELSE Original
        /\ CallCount(inv[p], "ExtractOverview") = IF Classified(inv[p]) THEN 1 ELSE 0

\* C21 witness: a detection result without language_code led to no translation
\* and to an overview call on the original text, the document completing.
C21_Witness ==
    /\ inv[1].language_info = NoCodeInfo
    /\ inv[1].pc = "done"
    /\ inv[1].raised = ""
    /\ ~Called(inv[1], "TranslateFinancialDocument")
    /\ inv[1].calls[CallIndex(inv[1], "ExtractOverview")].document = Original

\* the clients of an imported snapshot, none if it has no "clients" key
SnapshotClients(data) ==
    IF "clients" \in DOMAIN data.f THEN data.f.clients ELSE [keys |-> <<>>, recs |-> <<>>]

\* C22: import_client_data is last-write-wins per key: after it, every key of
\* the snapshot maps to the snapshot's record, every other key of the ledger
\* keeps its record, no other key exists, and the call returns the number of
\* clients of the snapshot; importing what export_client_data returned for
\* this ledger leaves the ledger as it was.
C22_LastWriteWins ==
    last_op.op = "import_client_data" =>
        LET snap == SnapshotClients(last_op.data) IN
        /\ DOMAIN client_data_store.recs = DOMAIN prev_store.recs \cup DOMAIN snap.recs
        /\ \A k \in DOMAIN snap.recs : client_data_store.recs[k] = snap.recs[k]
        /\ \A k \in DOMAIN prev_store.recs \ DOMAIN snap.recs :
             client_data_store.recs[k] = prev_store.recs[k]
        /\ ret.count = Cardinality(DOMAIN snap.recs)
        /\ snap = prev_store => client_data_store = prev_store

\* C22 witness: a snapshot holding B and C was imported into a ledger holding
\* A, B and C: B was replaced by a different record and A kept.
C22_Witness ==
    /\ last_op.op = "import_client_data"
    /\ last_op.data = SnapSpacing
    /\ prev_store.keys = <<"A", "B", "C">>
    /\ client_data_store.recs["B"] # prev_store.recs["B"]
    /\ client_data_store.recs["A"] = prev_store.recs["A"]
    /\ ret.count = 2

\* a ledger holding records was exported and the export imported back
C22_RoundTripReached ==
    /\ last_op.op = "import_client_data"
    /\ "export_timestamp" \in DOMAIN last_op.data.f
    /\ "clients" \in DOMAIN last_op.data.f
    /\ prev_store.keys # <<>>
    /\ last_op.data.f.clients = prev_store

\* the place of a service call in the pipeline
Rank(call) ==
    CASE call.fn = "DetectLanguage" -> 1
      [] call.fn = "TranslateFinancialDocument" -> 2
      [] call.fn \in {"ExtractClientIdentifier", "ExtractMultilingualClientIdentifier"} -> 3
      [] call.fn \in ClassifyCalls -> 4
      [] call.fn = "ExtractOverview" -> 5
      [] call.fn = "CalculateNetWorth" -> 6

\* the calls of an invocation are in pipeline order: detection first, no stage
\* but translation skipped, none but the net-worth stage repeated
InStageOrder(calls) ==
    /\ calls # <<>> => Rank(calls[1]) = 1
    /\ \A i \in 1..(Len(calls) - 1) :
         \/ Rank(calls[i + 1]) = Rank(calls[i]) + 1
         \/ Rank(calls[i]) = 1 /\ Rank(calls[i + 1]) = 3
         \/ Rank(calls[i]) = 6 /\ Rank(calls[i + 1]) = 6

\* C23: within one analyze_document invocation the stages run in the order
\* detection, translation (if needed), identification, classification,
\* overview, ledger update of every client of the overview, net-worth
\* computation of every client, result; a call is issued only after the one
\* before it has answered; the ledger is written only in the step that
\* receives the overview response, so no update precedes the overview call;
\* and every net-worth call is made with the ledger holding every client of
\* the overview and is given the client's lists as updated.
C23_StagesInOrder ==
    [][\A p \in Procs :
        LET st == inv'[p] IN
        /\ InStageOrder(st.calls)
        /\ Len(st.calls) - Len(st.resps) \in {0, 1}
        /\ st.pc = "done" => Len(st.calls) = Len(st.resps)
        /\ client_data_store' # client_data_store =>
             \E q \in Procs : /\ inv[q].pc = "overview"
                               /\ inv'[q].resps = Append(inv[q].resps, "obj")
        /\ \A i \in 1..Len(st.calls) :
             st.calls[i].fn = "CalculateNetWorth" =>
                /\ \A j \in 1..Len(st.overview_data.keys) :
                     Has(client_data_store', st.overview_data.keys[j])
                /\ st.calls[i].assets = client_data_store'.recs[st.calls[i].client_id].assets
                /\ st.calls[i].liabilities =
                     client_data_store'.recs[st.calls[i].client_id].liabilities
        /\ (st.pc = "done" /\ st.raised = "") =>
             /\ IsObj(st.overview_data)
             /\ [j \in 1..CallCount(st, "CalculateNetWorth") |->
                    st.calls[CallIndex(st, "ExtractOverview") + j].client_id]
                  = st.overview_data.keys]_vars

\* C23 witness: a document in German naming two clients completed after seven
\* calls: detection, translation, identification, classification, overview and
\* two net-worth computations.
C23_Witness ==
    /\ inv[1].pc = "done"
    /\ inv[1].raised = ""
    /\ Len(inv[1].calls) = 7
    /\ Len(inv[1].resps) = 7
    /\ Called(inv[1], "TranslateFinancialDocument")
    /\ CallCount(inv[1], "CalculateNetWorth") = 2

\* the invocation has returned a result that is not the failed one
Succeeded(st) == st.pc = "done" /\ st.raised = ""

\* C24 (as claimed): a successful analyze_document invocation issues between
\* 3 and 5 service calls, whatever the language and the number of clients.
C24_ThreeToFiveCalls ==
    \A p \in Procs : Succeeded(inv[p]) => Len(inv[p].calls) \in 3..5

\* C24 (amended): a successful analyze_document invocation issues exactly
\* 4 + t + n service calls: detection, identification, classification and
\* overview, t = 1 translation call when the detected language is not English
\* (else 0), and one net-worth call for each of the n clients of the overview.
C24_CallsPerDocument ==
    \A p \in Procs :
        Succeeded(inv[p]) =>
            /\ Len(inv[p].calls) =
                 4 + (IF DictGet(inv[p].language_info, "language_code", "en") # "en" THEN 1 ELSE 0)
                   + Len(inv[p].raw_overview.keys)
            /\ CallCount(inv[p], "CalculateNetWorth") = Len(inv[p].raw_overview.keys)
            /\ Len(inv[p].calls) >= 4

\* C24 witness: an English document naming two clients completed after six
\* service calls.
C24_Witness ==
    /\ Succeeded(inv[1])
    /\ inv[1].language_code = "en"
    /\ Len(inv[1].raw_overview.keys) = 2
    /\ Len(inv[1].calls) = 6

KeySet(o) == {o.keys[i] : i \in 1..Len(o.keys)}

\* the ledger keys the step created or whose record it changed
Touched ==
    {k \in DOMAIN client_data_store'.recs :
        ~Has(client_data_store, k) \/ client_data_store'.recs[k] # client_data_store.recs[k]}

\* the step in which invocation p receives the overview response and parses it
\* to a mapping
OverviewParsed(p) ==
    /\ inv[p].pc = "overview"
    /\ inv'[p] # inv[p]
    /\ IsObj(inv'[p].raw_overview)

RecordFields == {"assets", "liabilities", "documents_processed"}

C26_FinancialDataIsRaw ==
    \A p \in Procs :
        Succeeded(inv[p]) => inv[p].result.f.financial_data = inv[p].raw_overview

\* how many times entry e occurs in the lists `field` of all records of s
Occurrences(s, field, e) ==
    SumSeq([j \in 1..Len(s.keys) |->
               Cardinality({i \in 1..Len(s.recs[s.keys[j]][field]) :
                               s.recs[s.keys[j]][field][i] = e})])

\* every entry of the lists `field` of all records of s
EntriesOf(s, field) ==
    UNION {{s.recs[k][field][i] : i \in 1..Len(s.recs[k][field])} : k \in DOMAIN s.recs}

\* the lists `field` of the two ledgers hold the same entries the same number
\* of times
SameMultiset(s, t, field) ==
    \A e \in EntriesOf(s, field) \cup EntriesOf(t, field) :
        Occurrences(s, field, e) = Occurrences(t, field, e)

\* assets minus liabilities, summed over every record of s
LedgerNetWorth(s) ==
    SumSeq([j \in 1..Len(s.keys) |->
               Worth(s.recs[s.keys[j]].assets) - Worth(s.recs[s.keys[j]].liabilities)])

\* C27: reconcile_client_records conserves the ledger's content: it returns the
\* number of records it removed, and the asset entries, the liability entries
\* and the history events of the whole ledger are the same multisets after the
\* call as before, so that the ledger-wide assets minus liabilities is
\* unchanged.
C27_ReconcileConserves ==
    last_op.op = "reconcile_client_records" =>
        /\ Len(client_data_store.keys) = Len(prev_store.keys) - ret.count
        /\ DOMAIN client_data_store.recs \subseteq DOMAIN prev_store.recs
        /\ \A field \in MergedFields : SameMultiset(prev_store, client_data_store, field)
        /\ LedgerNetWorth(client_data_store) = LedgerNetWorth(prev_store)

\* C27 witness: a reconciliation removed records that held assets, liabilities
\* and history, and the ledger-wide net worth, not zero, is what it was.
C27_Witness ==
    /\ last_op.op = "reconcile_client_records"
    /\ ret.count > 0
    /\ \E k \in DOMAIN prev_store.recs \ DOMAIN client_data_store.recs :
         /\ prev_store.recs[k].liabilities # <<>>
         /\ prev_store.recs[k].documents_processed # <<>>
    /\ LedgerNetWorth(prev_store) # 0

\* C28: reconcile_client_records called a second time, no ledger operation in
\* between, returns 0 and leaves every record as it is: keys, assets,
\* liabilities, history and merge_history.
C28_ReconcileIdempotent ==
    [][(/\ last_op.op = "reconcile_client_records"
        /\ last_op'.op = "reconcile_client_records"
        /\ nops' = nops + 1)
       => /\ ret'.count = 0
          /\ client_data_store' = client_data_store]_vars

\* C28 witness: a first reconciliation merged two records into A, a second one
\* followed at once, returned 0 and left the ledger, merge_history included,
\* as it was.
C28_Witness ==
    /\ last_op.op = "reconcile_client_records"
    /\ nops = 2
    /\ ret.count = 0
    /\ client_data_store = prev_store
    /\ Has(client_data_store, "A")
    /\ "merge_history" \in DOMAIN client_data_store.recs["A"]
    /\ Len(client_data_store.recs["A"].merge_history) = 2

(***************************************************************************)
(* Two callers at once: analyze_document is a coroutine, and an invocation *)
(* gives way to another only at an await of an Extraction Service call     *)
(***************************************************************************)

KnownClient ==
    extract_client_info(
        Json(Obj([client_id |-> JStr(<<"1", "2">>), client_name |-> JStr(JohnSmith)]))).value

\* The documents of a concurrent session: English documents of an identified
\* client whose overviews are POne or PTwo; a CalculateNetWorth call may fail.
Routine(st) ==
    /\ st.raised \in {"", "networth"}
    /\ st.language_info \in {None, EnglishInfo}
    /\ st.client_info \in {None, KnownClient}
    /\ st.raw_overview \in {None, POne, PTwo}

\* One resumption of caller p's invocation; the other caller's invocation
\* stays where it is suspended.
ConcurrentStep(p) ==
    \/ Start(p)
    \/ DetectReturns(p) /\ Routine(inv'[p])
    \/ ClientReturns(p) /\ Routine(inv'[p])
    \/ ClassifyReturns(p) /\ Routine(inv'[p])
    \/ OverviewReturns(p) /\ Routine(inv'[p])
    \/ NetWorthReturns(p) /\ Routine(inv'[p])

ConcurrentNext == ConcurrentStep(1) \/ ConcurrentStep(2)

ConcurrentSpec == Init /\ [][ConcurrentNext]_vars

\* the overview of caller p's current document has been ingested
Ingested(p) == IsObj(inv[p].raw_overview)

\* the entries of list `part` stand in list `whole` from position i + 1 on
SegmentAt(whole, part, i) ==
    /\ i + Len(part) <= Len(whole)
    /\ SubSeq(whole, i + 1, i + Len(part)) = part

\* The entries the ingestion stores for client k of a payload.
StoredEntries(payload, k, field) ==
    IF field = "assets" THEN SuppliedAssets(payload, k)
    ELSE NormalizeLiabilities(SuppliedLiabilities(payload, k))

\* the record of k holds the entries of both callers' documents, each
\* document's entries contiguous, in their order, the two runs apart
BothKept(k, field) ==
    LET whole == client_data_store.recs[k][field]
        one == StoredEntries(inv[1].raw_overview, k, field)
        two == StoredEntries(inv[2].raw_overview, k, field)
    IN \E i \in 0..Len(whole), j \in 0..Len(whole) :
         /\ SegmentAt(whole, one, i)
         /\ SegmentAt(whole, two, j)
         /\ (i + Len(one) <= j \/ j + Len(two) <= i)

\* The step in which caller p's overview call answers applies the whole
\* update of p's document to the ledger as it stands.
Uninterrupted(p) ==
    (inv[p].pc = "overview" /\ Ingested(p)')
    => LET payload == inv'[p].raw_overview IN
       /\ \A k \in KeySet(payload) :
            /\ Has(client_data_store', k)
            /\ \A field \in {"assets", "liabilities"} :
                 client_data_store'.recs[k][field] =
                    ListOr(client_data_store, k, field) \o StoredEntries(payload, k, field)
       /\ \A k \in DOMAIN client_data_store.recs \ KeySet(payload) :
            /\ Has(client_data_store', k)
            /\ client_data_store'.recs[k] = client_data_store.recs[k]

\* C29: when two analyze_document invocations interleave at their Extraction
\* Service calls, no update is lost: the step in which an invocation's
\* overview call answers appends all entries of its document to the ledger as
\* the other invocation left it, no other step of either invocation changes
\* the ledger, and a client key both documents name holds every asset and
\* liability entry of both, each document's entries contiguous and in their
\* original order.
C29_NoLostUpdate ==
    /\ []((Ingested(1) /\ Ingested(2))
          => \A k \in KeySet(inv[1].raw_overview) \cap KeySet(inv[2].raw_overview) :
               /\ Has(client_data_store, k)
               /\ BothKept(k, "assets")
               /\ BothKept(k, "liabilities"))
    /\ [][/\ \A p \in Procs : Uninterrupted(p)
          /\ (\A p \in Procs : inv[p].pc # "overview")
               => client_data_store' = client_data_store]_vars

\* C29 witness: the document submitted second was ingested first while the
\* first was suspended, both name client A, both invocations are suspended in
\* their net-worth calls, and A holds the entries of both.
C29_Witness ==
    /\ inv[1].document_name = 1 /\ inv[1].pc = "networth" /\ inv[1].raw_overview = POne
    /\ inv[2].document_name = 2 /\ inv[2].pc = "networth" /\ inv[2].raw_overview = PTwo
    /\ client_data_store.recs["A"].assets =
         SuppliedAssets(PTwo, "A") \o SuppliedAssets(POne, "A")
    /\ Len(client_data_store.recs["A"].liabilities) = 2

EarlyStages == {"detect", "translate", "client", "classify", "overview"}
LateStages == {"networth", "combine"}

ReturnedFailed(st) ==
    /\ st.pc = "done"
    /\ IsObj(st.result)
    /\ DOMAIN st.result.f = FailedKeys
    /\ st.result.f.status = "failed"

\* the four stages before the overview call and the overview call itself have
\* been called and have answered
UpToOverviewCompleted(st) ==
    /\ \A fn \in {"DetectLanguage", "ExtractOverview"} :
         Called(st, fn) /\ ResponseTo(st, fn) # "none"
    /\ st.language_code # "en" =>
         Called(st, "TranslateFinancialDocument")
           /\ ResponseTo(st, "TranslateFinancialDocument") # "none"
    /\ \E fn \in {"ExtractClientIdentifier", "ExtractMultilingualClientIdentifier"} :
         Called(st, fn) /\ ResponseTo(st, fn) # "none"
    /\ \E fn \in {"ClassifyFinancialDocument", "ClassifyMultilingualDocument"} :
         Called(st, fn) /\ ResponseTo(st, fn) # "none"

\* the ledger holds, for every client of the document, the entries the ledger
\* held when the document was submitted followed by the document's
DocumentAppended(st) ==
    \A k \in KeySet(st.raw_overview) :
        /\ Has(client_data_store, k)
        /\ \A field \in {"assets", "liabilities"} :
             client_data_store.recs[k][field] =
                ListOr(prev_store, k, field) \o StoredEntries(st.raw_overview, k, field)

\* C30: analyze_document changes the ledger only once detection, translation
\* (when needed), identification, classification and the overview call have
\* all answered; a failure in any of those stages returns the failed result
\* with the ledger exactly as it was when the document was submitted; a
\* failure during the net-worth computation returns the failed result too,
\* and the entries of the document stay appended to the ledger.
C30_FailureAndLedger ==
    LET st == inv[1] IN
    /\ client_data_store # prev_store => UpToOverviewCompleted(st)
    /\ st.pc \in EarlyStages => client_data_store = prev_store
    /\ st.raised \in EarlyStages =>
         /\ ReturnedFailed(st)
         /\ client_data_store = prev_store
    /\ st.raised \in LateStages =>
         /\ ReturnedFailed(st)
         /\ DocumentAppended(st)

\* C30 witness: the net-worth call of the second document raised; the result
\* is the failed result and client A, known before, keeps the entries the
\* document appended.
C30_Witness ==
    /\ inv[1].raised = "networth"
    /\ ReturnedFailed(inv[1])
    /\ Has(prev_store, "A")
    /\ prev_store.recs["A"].assets # <<>>
    /\ Len(client_data_store.recs["A"].assets) > Len(prev_store.recs["A"].assets)
    /\ client_data_store.recs["A"].liabilities # prev_store.recs["A"].liabilities

====
